---- MODULE Spec2Model ----
(***************************************************************************)
(* Model of the WireGuard router (src/src/router.rs, utils.rs, lib.rs,     *)
(* config.rs, main.rs): frame pre-filter and classifier, MAC1 backend      *)
(* selection, the session table, the select! loop and the reload path.    *)
(*                                                                         *)
(* Byte buffers are sequences of cells.  A cell is a byte range of the     *)
(* datagram; the first twelve cells are single bytes (opcode, reserved,    *)
(* the two Identity fields), the others are opaque ranges cut at the field *)
(* offsets of the frame structs and at the datagram sizes the model sends. *)
(* BLAKE2s (an external crate) is modelled symbolically: hash and mac      *)
(* build terms, so two digests are equal iff key and input are equal.      *)
(***************************************************************************)
EXTENDS Integers, Sequences, FiniteSets, TLC

VARIABLES
    sessions,   \* Router.sessions: Identity -> <<From, To>>
    peers,      \* the loop's local `peers` snapshot (Vec<Peer>)
    settings,   \* config::settings(): the OnceLock'd static Config
    file,       \* content of config.toml on disk
    config_rx,  \* std::sync::mpsc channel fed by the watcher
    rx,         \* tokio::sync::mpsc::channel(10) read by the loop
    buf,        \* the loop's reused receive buffer
    pc,         \* "select" at the select! of Router::run, "returned" after Err(e);
                \* inside handle_packet: "handle", "lock", "locked", "send"
    step,       \* what the last loop iteration did (event, egress, MAC count)
    pinned,     \* history: id -> <<c, b>> of the initiation that installed id
    origin,     \* history: id -> the handshake frame that last wrote id
    firstHs,    \* history: id -> the first forwarded handshake frame sent by id
    handled,    \* number of datagrams the loop has received
    mutex,      \* the tokio Mutex around Router.sessions: "free" or "held"
    held        \* the event the forwarding task took out of config_rx and
                \* has not yet put into rx (<<>> when it holds none)

vars == <<sessions, peers, settings, file, config_rx, rx, buf, pc, step,
          pinned, origin, firstHs, handled, mutex, held>>

----------------------------------------------------------------------------
(* Bounds of the model *)

MaxId == 2          \* identities 1..MaxId (a byte value repeated four times)
MaxPending == 1     \* watcher events pending in the two channels together
MaxPackets == 3     \* datagrams received in one run of the loop
MaxSize == 150      \* datagram lengths 0..MaxSize (and BufLen) given to the classifier
MaxBurst == 12      \* watcher events pending when config.toml is written in a burst

(* Program constants *)

InitiationSize == 148
ResponseSize == 92
CookieSize == 64
TransportMin == 32
Mac1Offset == 116
ChannelCap == 10
BufLen == 1024 * 70

LABEL_MAC1 == "mac1----"

----------------------------------------------------------------------------
(* Byte buffers as cells *)

\* End offset of each cell; cell i covers bytes CellHi[i-1] .. CellHi[i]-1.
CellHi == <<1, 2, 3, 4, 5, 6, 7, 8, 9, 10, 11, 12,
            31, 32, 64, 92, 116, 132, 148, 149, BufLen>>

NumCells == Len(CellHi)

\* Number of cells that lie wholly inside the first n bytes.
CellsIn(n) == Cardinality({i \in 1..NumCells : CellHi[i] <= n})

\* The cell of the 16 bytes at offset 116 (HandshakeInitiation.mac1).
Mac1Cell == CellsIn(Mac1Offset) + 1

\* The sizes a modelled datagram may have: the cell boundaries.
SizeOf(d) == IF Len(d) = 0 THEN 0 ELSE CellHi[Len(d)]

\* vec![0; 1024 * 70]
ZeroBuf == [i \in 1..NumCells |->
              IF i <= 12 THEN 0 ELSE IF i = Mac1Cell THEN <<"z">> ELSE "z"]

\* recv_from writes the datagram over the first SizeOf(d) bytes of the buffer
\* and leaves the rest as it was.
Write(b, d) == [i \in 1..NumCells |-> IF i <= Len(d) THEN d[i] ELSE b[i]]

\* &data[..n]
Slice(data, n) == SubSeq(data, 1, CellsIn(n))

\* The 4-byte Identity that starts at byte offset off (4 or 8).
IdentityAt(data, off) ==
    <<data[off + 1], data[off + 2], data[off + 3], data[off + 4]>>

----------------------------------------------------------------------------
(* utils.rs, lib.rs: crypto and peers *)

\* Blake2s(input, 32)
hash(input) == <<"H", input>>

\* Keyed-Blake2s(key, input, 16)
mac(key, input) == <<"mac", key, input>>

\* Faulty variant: the length test left out, so the header bytes are read
\* whatever the datagram's length.
is_wg_packet_no_size(size, packet) ==
    /\ 1 <= packet[1]
    /\ packet[1] <= 4
    /\ packet[2] = 0 /\ packet[3] = 0 /\ packet[4] = 0

\* utils::is_wg_packet
is_wg_packet(size, packet) ==
    /\ size > 4
    /\ 1 <= packet[1]
    /\ packet[1] <= 4
    /\ packet[2] = 0 /\ packet[3] = 0 /\ packet[4] = 0

\* Peer::build(address, pub_key)
Peer_build(address, pub_key) ==
    [pub_key |-> pub_key,
     precomputed_hash_label_mac1 |-> hash(<<LABEL_MAC1, pub_key>>),
     address |-> address]

\* config::load(): deserialize the [[peers]] array of the file, in file order.
load(f) == [peers |-> [i \in 1..Len(f) |-> Peer_build(f[i][1], f[i][2])]]

----------------------------------------------------------------------------
(* router.rs: the classifier *)

\* Faulty variant: the classifier looks at the opcode alone.
try_from_any_length(data, size) ==
    CASE data[1] = 1 ->
           [kind |-> "HandshakeInitiation",
            sender |-> IdentityAt(data, 4), receiver |-> <<>>,
            mac1 |-> data[Mac1Cell]]
      [] data[1] = 2 ->
           [kind |-> "HandshakeResponse",
            sender |-> IdentityAt(data, 4), receiver |-> IdentityAt(data, 8),
            mac1 |-> <<>>]
      [] data[1] = 3 ->
           [kind |-> "CookieReply",
            sender |-> <<>>, receiver |-> IdentityAt(data, 4), mac1 |-> <<>>]
      [] data[1] = 4 ->
           [kind |-> "TransportData",
            sender |-> <<>>, receiver |-> IdentityAt(data, 4), mac1 |-> <<>>]
      [] OTHER ->
           [kind |-> "InvalidPacket",
            sender |-> <<>>, receiver |-> <<>>, mac1 |-> <<>>]

\* impl TryFrom<(&[u8], usize)> for WireguardPacket: match (data[0], size).
\* The arm (0x04, 32..usize::MAX) leaves out usize::MAX alone, a length no
\* datagram in a 70 KiB buffer has.
try_from(data, size) ==
    CASE data[1] = 1 /\ size = InitiationSize ->
           [kind |-> "HandshakeInitiation",
            sender |-> IdentityAt(data, 4), receiver |-> <<>>,
            mac1 |-> data[Mac1Cell]]
      [] data[1] = 2 /\ size = ResponseSize ->
           [kind |-> "HandshakeResponse",
            sender |-> IdentityAt(data, 4), receiver |-> IdentityAt(data, 8),
            mac1 |-> <<>>]
      [] data[1] = 3 /\ size = CookieSize ->
           [kind |-> "CookieReply",
            sender |-> <<>>, receiver |-> IdentityAt(data, 4), mac1 |-> <<>>]
      [] data[1] = 4 /\ size >= TransportMin ->
           [kind |-> "TransportData",
            sender |-> <<>>, receiver |-> IdentityAt(data, 4), mac1 |-> <<>>]
      [] OTHER ->
           [kind |-> "InvalidPacket",
            sender |-> <<>>, receiver |-> <<>>, mac1 |-> <<>>]

----------------------------------------------------------------------------
(* router.rs: Router::handle_packet *)

\* Faulty variant: the insert starts a new table and loses the other entries.
Insert_fresh_table(sess, id, v) ==
    [x \in {id} |-> v]

\* HashMap::insert: overwrites any prior entry for id.
Insert(sess, id, v) ==
    [x \in DOMAIN sess \cup {id} |-> IF x = id THEN v ELSE sess[x]]

\* Faulty variant: the MAC is taken over the whole initiation, not data[..116].
Mac1Matches_whole_frame(p, data, mac1) ==
    mac1 = mac(p.precomputed_hash_label_mac1, Slice(data, InitiationSize))

\* The closure of peers.iter().find(..): MAC1 of data[..116] under p's key
\* equals the frame's mac1 field.
Mac1Matches(p, data, mac1) ==
    mac1 = mac(p.precomputed_hash_label_mac1, Slice(data, Mac1Offset))

\* Faulty variant: the last matching peer wins.
FindBackend_last(ps, data, mac1) ==
    LET hits == {i \in 1..Len(ps) : Mac1Matches(ps[i], data, mac1)}
    IN IF hits = {} THEN 0 ELSE CHOOSE i \in hits : \A j \in hits : j <= i

\* peers.iter().find(..): index of the first matching peer, 0 for None.
FindBackend(ps, data, mac1) ==
    LET hits == {i \in 1..Len(ps) : Mac1Matches(ps[i], data, mac1)}
    IN IF hits = {} THEN 0 ELSE CHOOSE i \in hits : \A j \in hits : i <= j

\* What one call of handle_packet does: the session table it leaves, the
\* send_to calls it makes, the number of utils::mac calls it makes.
Outcome(sess, sent, macs) == [sessions |-> sess, sent |-> sent, macs |-> macs]

\* Faulty variant: the bytes sent are cut at the length of the longest
\* handshake struct and not at size, so they may end in left-overs of an
\* earlier datagram.
SendTo_struct_length(data, size, target) ==
    <<[to |-> target, data |-> Slice(data, InitiationSize), len |-> size]>>

\* self.socket.send_to(&data[..size], target)
SendTo(data, size, target) ==
    <<[to |-> target, data |-> Slice(data, size), len |-> size]>>

\* Faulty variant: an initiation no peer matches goes to the first peer.
OnInitiation_default(size, peer, data, ps, sess, packet) ==
    IF packet.sender \in DOMAIN sess
    THEN Outcome(sess, SendTo(data, size, sess[packet.sender][2]), 0)
    ELSE LET i == FindBackend(ps, data, packet.mac1)
             b == IF i # 0 THEN i ELSE 1
         IN Outcome(Insert(sess, packet.sender, <<peer, ps[b].address>>),
                    SendTo(data, size, ps[b].address), IF i # 0 THEN i ELSE Len(ps))

\* WireguardPacket::HandshakeInitiation(packet) => ..
OnInitiation(size, peer, data, ps, sess, packet) ==
    IF packet.sender \in DOMAIN sess
    THEN Outcome(sess, SendTo(data, size, sess[packet.sender][2]), 0)
    ELSE LET i == FindBackend(ps, data, packet.mac1) IN
         IF i # 0
         THEN Outcome(Insert(sess, packet.sender, <<peer, ps[i].address>>),
                      SendTo(data, size, ps[i].address), i)
         ELSE Outcome(sess, <<>>, Len(ps))

\* Faulty variant: the new entry takes session.1 where the code takes session.0.
OnResponse_backend(size, peer, data, ps, sess, packet) ==
    IF packet.receiver \in DOMAIN sess
    THEN LET session == sess[packet.receiver] IN
         Outcome(Insert(sess, packet.sender, <<peer, session[2]>>),
                 SendTo(data, size, session[1]), 0)
    ELSE Outcome(sess, <<>>, 0)

\* Faulty variant: the response is sent to both members of the entry.
OnResponse_both_members(size, peer, data, ps, sess, packet) ==
    IF packet.receiver \in DOMAIN sess
    THEN LET session == sess[packet.receiver] IN
         Outcome(Insert(sess, packet.sender, <<peer, session[1]>>),
                 SendTo(data, size, session[1]) \o SendTo(data, size, session[2]),
                 0)
    ELSE Outcome(sess, <<>>, 0)

\* WireguardPacket::HandshakeResponse(packet) => ..
OnResponse(size, peer, data, ps, sess, packet) ==
    IF packet.receiver \in DOMAIN sess
    THEN LET session == sess[packet.receiver] IN
         Outcome(Insert(sess, packet.sender, <<peer, session[1]>>),
                 SendTo(data, size, session[1]), 0)
    ELSE Outcome(sess, <<>>, 0)

\* Faulty variant: the cookie reply goes to the second member of the entry.
OnCookieReply_backend(size, peer, data, ps, sess, packet) ==
    IF packet.receiver \in DOMAIN sess
    THEN Outcome(sess, SendTo(data, size, sess[packet.receiver][2]), 0)
    ELSE Outcome(sess, <<>>, 0)

\* WireguardPacket::CookieReply(packet) => ..
OnCookieReply(size, peer, data, ps, sess, packet) ==
    IF packet.receiver \in DOMAIN sess
    THEN Outcome(sess, SendTo(data, size, sess[packet.receiver][1]), 0)
    ELSE Outcome(sess, <<>>, 0)

\* Faulty variant: transport data goes to the first member of the entry.
OnTransportData_client(size, peer, data, ps, sess, packet) ==
    IF packet.receiver \in DOMAIN sess
    THEN Outcome(sess, SendTo(data, size, sess[packet.receiver][1]), 0)
    ELSE Outcome(sess, <<>>, 0)

\* WireguardPacket::TransportData((header, _, _)) => ..
OnTransportData(size, peer, data, ps, sess, packet) ==
    IF packet.receiver \in DOMAIN sess
    THEN Outcome(sess, SendTo(data, size, sess[packet.receiver][2]), 0)
    ELSE Outcome(sess, <<>>, 0)

handle_packet(size, peer, data, ps, sess) ==
    IF ~is_wg_packet(size, data)
    THEN Outcome(sess, <<>>, 0)
    ELSE LET packet == try_from(data, size) IN
         CASE packet.kind = "HandshakeInitiation" ->
                OnInitiation(size, peer, data, ps, sess, packet)
           [] packet.kind = "HandshakeResponse" ->
                OnResponse(size, peer, data, ps, sess, packet)
           [] packet.kind = "CookieReply" ->
                OnCookieReply(size, peer, data, ps, sess, packet)
           [] packet.kind = "TransportData" ->
                OnTransportData(size, peer, data, ps, sess, packet)
           [] OTHER -> Outcome(sess, <<>>, 0)

----------------------------------------------------------------------------
(* The environment: addresses, keys, config files, datagrams *)

Clients == {"c1", "c2"}
Backends == {"b1", "b2", "b3"}

Keys == {"K1", "K2", "K3"}

\* config.toml as the list of its [[peers]] tables, <<address, pubkey>> each.
CfgAB == << <<"b1", "K1">>, <<"b2", "K2">> >>
CfgBA == << <<"b2", "K2">>, <<"b1", "K1">> >>
CfgDup == << <<"b1", "K1">>, <<"b2", "K2">>, <<"b3", "K1">> >>
CfgA == << <<"b1", "K1">> >>

Startups == {CfgAB, CfgBA, CfgDup}
Rewrites == {CfgA}

\* Identity n: the byte n repeated four times.
Id(n) == <<n, n, n, n>>
Ids == {Id(n) : n \in 1..MaxId}

\* A datagram of n bytes: opcode, three reserved bytes, the bytes 4..8 and
\* 8..12, then opaque payload.
Frame(op, res, a, b, n) ==
    [i \in 1..CellsIn(n) |->
        IF i = 1 THEN op
        ELSE IF i <= 4 THEN res[i - 1]
        ELSE IF i <= 8 THEN a[i - 4]
        ELSE IF i <= 12 THEN b[i - 8]
        ELSE IF i = Mac1Cell THEN <<"d">>
        ELSE "d"]

NoRes == <<0, 0, 0>>
Eph == <<7, 7, 7, 7>>

\* A handshake initiation from sender s whose MAC1 is computed, as a
\* WireGuard client does, under the key derived from public key k.
Initiation(s, k) ==
    LET f == Frame(1, NoRes, s, Eph, InitiationSize) IN
    [f EXCEPT ![Mac1Cell] =
        mac(hash(<<LABEL_MAC1, k>>), SubSeq(f, 1, Mac1Cell - 1))]

Response(s, r) == Frame(2, NoRes, s, r, ResponseSize)
Cookie(r) == Frame(3, NoRes, r, Eph, CookieSize)
Transport(r, n) == Frame(4, NoRes, r, Eph, n)

OddDatagrams ==
    { <<>>,                                   \* empty datagram
      <<4, 0, 0, 0>>,                         \* 4 bytes: a bare header
      Frame(1, NoRes, Id(1), Eph, ResponseSize),   \* opcode 1, length of 2
      Frame(5, NoRes, Id(1), Eph, TransportMin),   \* unknown opcode
      Frame(4, <<0, 0, 1>>, Id(1), Eph, TransportMin) } \* reserved nonzero


\* The datagrams the network delivers, with their source address: initiations
\* from clients, responses and cookie replies from a backend or from another
\* client, transport data from either side.
Ingress ==
    ({Initiation(s, k) : s \in Ids, k \in Keys} \X Clients)
      \cup ({Response(x[1], x[2]) : x \in Ids \X Ids} \X {"b2", "c2"})
      \cup ({Cookie(r) : r \in Ids} \X {"b2"})
      \cup ({Transport(r, TransportMin) : r \in Ids} \X {"c1", "b2"})
      \cup (OddDatagrams \X {"c1"})

----------------------------------------------------------------------------------------------------------------------------------------
(* History kept for the properties *)

\* The frame kind the wire format assigns to (opcode, length).
WireKind(op, size) ==
    IF op = 1 /\ size = 148 THEN "initiation"
    ELSE IF op = 2 /\ size = 92 THEN "response"
    ELSE IF op = 3 /\ size = 64 THEN "cookie"
    ELSE IF op = 4 /\ size >= 32 THEN "transport"
    ELSE "none"

\* The datagram passes the WireGuard heuristic of the wire format.
LooksLikeWg(data, size) ==
    size >= 5 /\ data[1] \in {1, 2, 3, 4} /\ <<data[2], data[3], data[4]>> = <<0, 0, 0>>

KindOf(data, size) ==
    IF LooksLikeWg(data, size) THEN WireKind(data[1], size) ELSE "none"

\* Addresses, in snapshot order, of the peers of ps whose MAC1 key
\* authenticates the initiation in data.
RECURSIVE MatchingBackends(_, _)
MatchingBackends(ps, data) ==
    IF ps = <<>> THEN <<>>
    ELSE (IF data[Mac1Cell] = <<"mac", <<"H", <<LABEL_MAC1, Head(ps).pub_key>>>>,
                                SubSeq(data, 1, Mac1Cell - 1)>>
          THEN <<Head(ps).address>> ELSE <<>>)
         \o MatchingBackends(Tail(ps), data)

NoSessions == [x \in {} |-> <<>>]

HsRecord(data, size, src, ps, sess) ==
    [kind |-> KindOf(data, size),
     src |-> src,
     backends |-> IF KindOf(data, size) = "initiation"
                  THEN MatchingBackends(ps, data) ELSE <<>>,
     c0 |-> IF KindOf(data, size) = "response"
               /\ IdentityAt(data, 8) \in DOMAIN sess
            THEN sess[IdentityAt(data, 8)][1] ELSE "none"]

----------------------------------------------------------------------------
(* Router::run *)

StepOf(ev, size, peer, sent, macs) ==
    [ev |-> ev, size |-> size, peer |-> peer, sent |-> sent, macs |-> macs]

Init ==
    /\ file \in Startups
    /\ settings = load(file)
    /\ peers = settings.peers
    /\ sessions = NoSessions
    /\ config_rx = <<>>
    /\ rx = <<>>
    /\ buf = ZeroBuf
    /\ pc = "select"
    /\ step = StepOf("start", 0, "none", <<>>, 0)
    /\ pinned = NoSessions
    /\ origin = NoSessions
    /\ firstHs = NoSessions
    /\ handled = 0
    /\ mutex = "free"
    /\ held = <<>>

\* Ok((size, peer)) => self.handle_packet(size, peer, &buf, &peers).await,
\* with data the buffer as recv_from left it, up to the first await of the
\* handler.  A frame that the pre-filter or try_from rejects returns to
\* select! in this step.  Any other frame reaches sessions.lock().await of
\* its arm: the datagram is received and nothing else is done yet (the lock
\* may return Pending, the poll's cooperative budget being used up).
Handle(size, src, data) ==
    LET rejected == \/ ~is_wg_packet(size, data)
                    \/ try_from(data, size).kind = "InvalidPacket"
    IN /\ buf' = data
       /\ step' = StepOf(IF rejected THEN "packet" ELSE "recv",
                          size, src, <<>>, 0)
       /\ pc' = IF rejected THEN "select" ELSE "lock"
       /\ handled' = handled + 1
       /\ UNCHANGED <<sessions, peers, settings, file, config_rx, rx,
                      pinned, origin, firstHs, mutex, held>>

\* sessions.lock().await completes and the arm runs up to its send_to:
\* lookup, MAC1 search, insert.  An arm that forwards stops in
\* send_to(..).await with the table written and the guard held; an arm that
\* sends nothing ends here and drops the guard.
LockAndRoute ==
    /\ pc = "lock"
    /\ mutex = "free"
    /\ LET r == handle_packet(step.size, step.peer, buf, peers, sessions)
           kind == KindOf(buf, step.size)
           hs == r.sent # <<>> /\ kind \in {"initiation", "response"}
           s == IdentityAt(buf, 4)
           installs == hs /\ (kind = "response" \/ s \notin DOMAIN sessions)
           rec == HsRecord(buf, step.size, step.peer, peers, sessions)
       IN /\ sessions' = r.sessions
          /\ step' = [step EXCEPT
                         !.ev = IF r.sent = <<>> THEN "packet" ELSE "sending",
                         !.sent = r.sent, !.macs = r.macs]
          /\ pc' = IF r.sent = <<>> THEN "select" ELSE "send"
          /\ mutex' = IF r.sent = <<>> THEN "free" ELSE "held"
          /\ pinned' = IF installs /\ kind = "initiation"
                       THEN Insert(pinned, s, <<step.peer, r.sent[1].to>>)
                       ELSE pinned
          /\ origin' = IF installs THEN Insert(origin, s, rec) ELSE origin
          /\ firstHs' = IF hs /\ s \notin DOMAIN firstHs
                        THEN Insert(firstHs, s, rec) ELSE firstHs
    /\ UNCHANGED <<peers, settings, file, config_rx, rx, buf, handled, held>>

\* result = self.socket.recv_from(&mut buf), Ok((size, peer))
RecvDatagram ==
    /\ pc = "select"
    /\ handled < MaxPackets
    /\ \E in \in Ingress : Handle(SizeOf(in[1]), in[2], Write(buf, in[1]))

\* result = self.socket.recv_from(&mut buf), Err(e): return Err(e)
RecvError ==
    /\ pc = "select"
    /\ pc' = "returned"
    /\ step' = StepOf("recv_err", 0, "none", <<>>, 0)
    /\ UNCHANGED <<sessions, peers, settings, file, config_rx, rx, buf,
                   pinned, origin, firstHs, handled, mutex, held>>

\* let _ = self.socket.send_to(..).await returns Ok; the arm ends, the guard
\* is dropped and handle_packet returns to the loop.
StepSendOk ==
    /\ pc = "send"
    /\ step' = [step EXCEPT !.ev = "packet"]
    /\ pc' = "select"
    /\ mutex' = "free"
    /\ UNCHANGED <<sessions, peers, settings, file, config_rx, rx, buf,
                   pinned, origin, firstHs, handled, held>>

\* Faulty variant: the error of send_to is propagated with `?` and ends run.
StepSendErr_fatal ==
    /\ pc = "send"
    /\ step' = [step EXCEPT !.ev = "packet_send_err"]
    /\ pc' = "returned"
    /\ mutex' = "free"
    /\ UNCHANGED <<sessions, peers, settings, file, config_rx, rx, buf,
                   pinned, origin, firstHs, handled, held>>

\* let _ = self.socket.send_to(..).await returns Err: the result is
\* discarded and the arm ends as after Ok.
StepSendErr ==
    /\ pc = "send"
    /\ step' = [step EXCEPT !.ev = "packet_send_err"]
    /\ pc' = "select"
    /\ mutex' = "free"
    /\ UNCHANGED <<sessions, peers, settings, file, config_rx, rx, buf,
                   pinned, origin, firstHs, handled, held>>

\* Faulty variant: the reload also evicts the sessions whose second member is
\* no peer of the snapshot (the GC the TODO in Router::run mentions).
ReloadOk_gc ==
    /\ pc = "select"
    /\ rx # <<>> /\ Head(rx) = "Ok"
    /\ rx' = Tail(rx)
    /\ peers' = settings.peers
    /\ sessions' = [id \in {x \in DOMAIN sessions :
                               \E i \in 1..Len(settings.peers) :
                                   settings.peers[i].address = sessions[x][2]}
                      |-> sessions[id]]
    /\ step' = StepOf("reload", 0, "none", <<>>, 0)
    /\ UNCHANGED <<settings, file, config_rx, buf, pc,
                   pinned, origin, firstHs, handled, mutex, held>>

\* Faulty variant: the reload runs as a task of its own and may assign the
\* snapshot while a handler is suspended.
ReloadOk_any_time ==
    /\ pc # "returned"
    /\ rx # <<>> /\ Head(rx) = "Ok"
    /\ rx' = Tail(rx)
    /\ peers' = settings.peers
    /\ UNCHANGED <<sessions, settings, file, config_rx, buf, pc, step,
                   pinned, origin, firstHs, handled, mutex, held>>

\* Some(event) = rx.recv(), Ok(event): peers = settings().read().peers
ReloadOk ==
    /\ pc = "select"
    /\ rx # <<>> /\ Head(rx) = "Ok"
    /\ rx' = Tail(rx)
    /\ peers' = settings.peers
    /\ step' = StepOf("reload", 0, "none", <<>>, 0)
    /\ UNCHANGED <<sessions, settings, file, config_rx, buf, pc,
                   pinned, origin, firstHs, handled, mutex, held>>

\* Some(event) = rx.recv(), Err(e): log only
ReloadErr ==
    /\ pc = "select"
    /\ rx # <<>> /\ Head(rx) = "Err"
    /\ rx' = Tail(rx)
    /\ step' = StepOf("reload_err", 0, "none", <<>>, 0)
    /\ UNCHANGED <<sessions, peers, settings, file, config_rx, buf, pc,
                   pinned, origin, firstHs, handled, mutex, held>>

\* The spawned task, while let Ok(event) = config_rx.recv(): the blocking
\* recv of the std channel returns an event, which the task now holds.
ForwardRecv ==
    /\ pc # "returned"
    /\ held = <<>>
    /\ config_rx # <<>>
    /\ held' = <<Head(config_rx)>>
    /\ config_rx' = Tail(config_rx)
    /\ UNCHANGED <<sessions, peers, settings, file, rx, buf, pc, step,
                   pinned, origin, firstHs, handled, mutex>>

\* The spawned task, tx.send(event).await: completes when the tokio channel
\* has room, and the task goes back to config_rx.recv().
ForwardSend ==
    /\ pc # "returned"
    /\ held # <<>>
    /\ Len(rx) < ChannelCap
    /\ rx' = Append(rx, held[1])
    /\ held' = <<>>
    /\ UNCHANGED <<sessions, peers, settings, file, config_rx, buf, pc, step,
                   pinned, origin, firstHs, handled, mutex>>

\* The watcher events that are neither dropped nor processed yet.
Pending == Len(config_rx) + Len(held) + Len(rx)

\* config.toml is written (with new content, or the same content again) and
\* the watcher reports the event.
FileChanged ==
    /\ pc # "returned"
    /\ Pending < MaxPending
    /\ \E f \in Rewrites \cup {file} : file' = f
    /\ config_rx' = Append(config_rx, "Ok")
    /\ UNCHANGED <<sessions, peers, settings, rx, buf, pc, step,
                   pinned, origin, firstHs, handled, mutex, held>>

\* The watcher reports an error instead of an event.
WatcherError ==
    /\ pc # "returned"
    /\ Pending < MaxPending
    /\ config_rx' = Append(config_rx, "Err")
    /\ UNCHANGED <<sessions, peers, settings, file, rx, buf, pc, step,
                   pinned, origin, firstHs, handled, mutex, held>>

Next ==
    \/ RecvDatagram
    \/ LockAndRoute
    \/ StepSendOk
    \/ StepSendErr
    \/ RecvError
    \/ ReloadOk
    \/ ReloadErr
    \/ ForwardRecv
    \/ ForwardSend
    \/ FileChanged
    \/ WatcherError

Spec == Init /\ [][Next]_vars

----------------------------------------------------------------------------
(* The pre-filter and the classifier on their own: one call of handle_packet
   on a buffer with any header bytes and any length *)

Opcodes == {0, 1, 2, 3, 4, 5, 255}
ReservedBytes == {<<0, 0, 0>>, <<1, 0, 0>>, <<0, 1, 0>>, <<0, 0, 1>>,
                  <<255, 255, 255>>}
TestSizes == 0..MaxSize \cup {BufLen}

\* What the receive buffer may hold when recv_from returns: a frame of sender
\* (or receiver) Id(1) with a MAC1 for K1, under any opcode and reserved
\* bytes.  With a returned length n the bytes from n on are left-overs of
\* earlier datagrams.
HeaderBufs ==
    {Write(ZeroBuf,
           [Initiation(Id(1), "K1") EXCEPT ![1] = op, ![2] = res[1],
                                           ![3] = res[2], ![4] = res[3]]) :
        op \in Opcodes, res \in ReservedBytes}

FullTable == [id \in Ids |-> <<"c1", "b2">>]

InitClassify ==
    /\ file = CfgAB
    /\ settings = load(file)
    /\ peers = settings.peers
    /\ sessions \in {NoSessions, FullTable}
    /\ config_rx = <<>>
    /\ rx = <<>>
    /\ buf \in HeaderBufs
    /\ pc = "select"
    /\ step = StepOf("start", 0, "none", <<>>, 0)
    /\ pinned = NoSessions
    /\ origin = NoSessions
    /\ firstHs = NoSessions
    /\ handled = 0
    /\ mutex = "free"
    /\ held = <<>>

\* recv_from returned (n, c1) with the buffer holding buf.
ClassifyOne ==
    /\ pc = "select"
    /\ handled = 0
    /\ \E n \in TestSizes : Handle(n, "c1", buf)

NextClassify == ClassifyOne \/ LockAndRoute \/ StepSendOk \/ StepSendErr

SpecClassify == InitClassify /\ [][NextClassify]_vars

----------------------------------------------------------------------------
(* Router::run with every await of handle_packet, and the stretch before the
   first, as a step of its own: the call is awaited inside the recv_from
   branch of select!, so the loop is back at select! only when the handler
   has returned.  The spawned forwarding task and the watcher run beside it.
   The history variables pinned, origin and firstHs are not kept here. *)

\* The datagrams the socket delivers in this specification.
IngressSteps ==
    { <<Initiation(Id(1), "K2"), "c1">>,
      <<Initiation(Id(2), "K3"), "c2">>,
      <<Response(Id(2), Id(1)), "b2">>,
      <<Cookie(Id(1)), "b2">>,
      <<Transport(Id(1), TransportMin), "c1">>,
      <<Frame(1, NoRes, Id(1), Eph, ResponseSize), "c1">>,
      << <<4, 0, 0, 0>>, "c1">> }

\* result = self.socket.recv_from(&mut buf), Ok((size, peer)): the handler
\* is entered.
StepRecv ==
    /\ pc = "select"
    /\ handled < MaxPackets
    /\ \E in \in IngressSteps :
          /\ buf' = Write(buf, in[1])
          /\ step' = StepOf("recv", SizeOf(in[1]), in[2], <<>>, 0)
    /\ handled' = handled + 1
    /\ pc' = "handle"
    /\ UNCHANGED <<sessions, peers, settings, file, config_rx, rx,
                   pinned, origin, firstHs, mutex, held>>

\* if !is_wg_packet(..) { return; } and the Err(err) arm of try_from: the
\* handler returns without touching the mutex; otherwise it goes on to
\* sessions.lock().await.
StepClassify ==
    /\ pc = "handle"
    /\ IF \/ ~is_wg_packet(step.size, buf)
          \/ try_from(buf, step.size).kind = "InvalidPacket"
       THEN /\ pc' = "select"
            /\ step' = [step EXCEPT !.ev = "packet"]
       ELSE /\ pc' = "lock"
            /\ step' = step
    /\ UNCHANGED <<sessions, peers, settings, file, config_rx, rx, buf,
                   pinned, origin, firstHs, handled, mutex, held>>

\* sessions.lock().await completes: the guard is held.
StepLock ==
    /\ pc = "lock"
    /\ mutex = "free"
    /\ mutex' = "held"
    /\ pc' = "locked"
    /\ UNCHANGED <<sessions, peers, settings, file, config_rx, rx, buf, step,
                   pinned, origin, firstHs, handled, held>>

\* The arm of the match up to its send_to: lookup, MAC1 search, insert.  An
\* arm that sends nothing ends here and drops the guard.
StepRoute ==
    /\ pc = "locked"
    /\ LET r == handle_packet(step.size, step.peer, buf, peers, sessions) IN
         /\ sessions' = r.sessions
         /\ IF r.sent = <<>>
            THEN /\ step' = [step EXCEPT !.ev = "packet", !.macs = r.macs]
                 /\ pc' = "select"
                 /\ mutex' = "free"
            ELSE /\ step' = [step EXCEPT !.ev = "sending", !.sent = r.sent,
                                         !.macs = r.macs]
                 /\ pc' = "send"
                 /\ mutex' = mutex
    /\ UNCHANGED <<peers, settings, file, config_rx, rx, buf,
                   pinned, origin, firstHs, handled, held>>

NextSteps ==
    \/ StepRecv
    \/ StepClassify
    \/ StepLock
    \/ StepRoute
    \/ StepSendOk
    \/ StepSendErr
    \/ RecvError
    \/ ReloadOk
    \/ ReloadErr
    \/ ForwardRecv
    \/ ForwardSend
    \/ FileChanged
    \/ WatcherError

SpecSteps == Init /\ [][NextSteps]_vars

\* Scheduling.  Router::run is the future of block_on and its synchronous
\* stretches run to their next await.  The rx.recv() branch of select! is
\* woken by the channel itself, and select! polls its branches in random
\* order, so a reload that is ready again and again is taken.  The forwarding
\* task is polled by a worker thread, and its tx.send is woken by the
\* channel.  recv_from and send_to complete only after the I/O driver has
\* reported the socket ready, and the driver is turned by a worker that has
\* nothing to run.  #[tokio::main] starts one worker per CPU; on a host with
\* one CPU the forwarding task occupies the only worker while it sits in the
\* blocking config_rx.recv(), and the socket is never reported ready.  The
\* socket steps are fair only with a second worker (FairSocket), so the
\* fairness every build gives leaves them out.
FairSteps ==
    /\ WF_vars(StepClassify)
    /\ WF_vars(StepLock)
    /\ WF_vars(StepRoute)
    /\ SF_vars(ReloadOk \/ ReloadErr)
    /\ WF_vars(ForwardRecv)
    /\ WF_vars(ForwardSend)

\* What a runtime with two or more workers adds: a worker is free to turn
\* the I/O driver, so recv_from returns a waiting datagram and send_to
\* completes.
FairSocket ==
    /\ WF_vars(StepSendOk \/ StepSendErr)
    /\ SF_vars(StepRecv)

SpecStepsFair == Init /\ [][NextSteps]_vars /\ FairSteps

SpecStepsMultiWorker == Init /\ [][NextSteps]_vars /\ FairSteps /\ FairSocket

----------------------------------------------------------------------------
(* The reload path on its own: the watcher, the forwarding task and the
   rx.recv() branch of the loop, with config.toml written again and again
   (same content) while the loop takes its time *)

\* config.toml is written once more and the watcher sends Ok(event) into the
\* std::sync::mpsc channel of main, which has no capacity limit.
FileRewritten ==
    /\ pc # "returned"
    /\ Pending < MaxBurst
    /\ config_rx' = Append(config_rx, "Ok")
    /\ UNCHANGED <<sessions, peers, settings, file, rx, buf, pc, step,
                   pinned, origin, firstHs, handled, mutex, held>>

NextWatcher ==
    \/ FileRewritten
    \/ WatcherError
    \/ ForwardRecv
    \/ ForwardSend
    \/ ReloadOk
    \/ ReloadErr

SpecWatcher == Init /\ [][NextWatcher]_vars

----------------------------------------------------------------------------
(* Vocabulary of the properties *)

\* This step handled a datagram (the loop took the recv_from branch with Ok).
PacketStep == handled' = handled + 1

\* This step decided what becomes of a datagram: handle_packet returned at
\* the pre-filter or at try_from in the step that received it, or an arm ran
\* from its lock to its send_to or to its end.
RouteStep ==
    /\ step'.ev \in {"packet", "sending"}
    /\ PacketStep \/ step.ev = "recv"

\* The step st sent exactly one datagram, to address a.
SentTo(st, a) == Len(st.sent) = 1 /\ st.sent[1].to = a

\* The step st sent nothing.
Dropped(st) == st.sent = <<>>

\* The peer list a config file describes: <<address, public key>> in file order.
AddrOf(entry) == entry[1]
KeyOf(entry) == entry[2]

\* Addresses, in file order, of the entries of config f whose public key
\* authenticates the initiation in data.
RECURSIVE MatchingEntries(_, _)
MatchingEntries(f, data) ==
    IF f = <<>> THEN <<>>
    ELSE (IF data[Mac1Cell] = <<"mac", <<"H", <<LABEL_MAC1, KeyOf(Head(f))>>>>,
                                SubSeq(data, 1, Mac1Cell - 1)>>
          THEN <<AddrOf(Head(f))>> ELSE <<>>)
         \o MatchingEntries(Tail(f), data)

NoPendingReload == Pending = 0

----------------------------------------------------------------------------
(* C1 - session pinning *)

\* C1: once an initiation with sender s has been forwarded to backend b and
\* installed session s for client c, every later initiation with sender s and
\* every later transport frame with receiver s is forwarded to b, every later
\* cookie reply with receiver s is forwarded to c, and no MAC1 is computed for
\* an initiation of s again, whatever datagrams and reloads came in between
\* (responses whose sender id is s included).
C1_SessionPinning ==
    [][RouteStep =>
        \A s \in DOMAIN pinned :
            LET kind == KindOf(buf', step'.size) IN
            /\ (kind = "initiation" /\ IdentityAt(buf', 4) = s)
                  => (SentTo(step', pinned[s][2]) /\ step'.macs = 0)
            /\ (kind = "transport" /\ IdentityAt(buf', 4) = s)
                  => SentTo(step', pinned[s][2])
            /\ (kind = "cookie" /\ IdentityAt(buf', 4) = s)
                  => SentTo(step', pinned[s][1])]_vars

----------------------------------------------------------------------------
(* C2 - reload takes effect *)

\* C2: once every reload event signalled for a change of config.toml has been
\* consumed by the loop, the peer snapshot is the peer list of the file; so an
\* initiation of a sender without session whose MAC1 matches only a key that
\* is no longer in the file is dropped and installs nothing.
C2_ReloadTakesEffect ==
    [][(RouteStep /\ NoPendingReload) =>
        /\ [i \in 1..Len(peers) |-> <<peers[i].address, peers[i].pub_key>>] = file
        /\ (/\ KindOf(buf', step'.size) = "initiation"
            /\ IdentityAt(buf', 4) \notin DOMAIN sessions
            /\ MatchingEntries(file, buf') = <<>>)
              => (Dropped(step') /\ sessions' = sessions)]_vars

----------------------------------------------------------------------------
(* C3 - MAC1 selects the backend *)

\* The MAC1 field of the initiation in data is the MAC under public key k.
Mac1For(k, data) ==
    data[Mac1Cell] = <<"mac", <<"H", <<LABEL_MAC1, k>>>>, SubSeq(data, 1, Mac1Cell - 1)>>

\* C3 (as claimed): in a snapshot of two or more peers where A's public key
\* is distinct from every other peer's, an initiation whose MAC1 matches A's
\* key is forwarded to A's address in every state of the session table, also
\* when its sender already has an entry.
C3_Mac1OracleAnyTable ==
    [][RouteStep =>
        \A i \in 1..Len(peers) :
            (/\ Len(peers) >= 2
             /\ \A j \in 1..Len(peers) : j # i => peers[j].pub_key # peers[i].pub_key
             /\ KindOf(buf', step'.size) = "initiation"
             /\ Mac1For(peers[i].pub_key, buf'))
              => SentTo(step', peers[i].address)]_vars

\* C3 (amended): when A's public key is shared by no other peer of the
\* snapshot and the sender of the initiation has no session entry, an
\* initiation whose MAC1 matches A's key is forwarded to A's address,
\* wherever A stands in the snapshot.
C3_Mac1OracleNewSender ==
    [][RouteStep =>
        \A i \in 1..Len(peers) :
            (/\ Len(peers) >= 2
             /\ \A j \in 1..Len(peers) : j # i => peers[j].pub_key # peers[i].pub_key
             /\ KindOf(buf', step'.size) = "initiation"
             /\ IdentityAt(buf', 4) \notin DOMAIN sessions
             /\ Mac1For(peers[i].pub_key, buf'))
              => SentTo(step', peers[i].address)]_vars

\* An initiation of a new sender matched the second of two peers with distinct
\* keys, in the order b2 before b1, and went to b1.
C3_Witness ==
    /\ step.ev = "packet"
    /\ KindOf(buf, step.size) = "initiation"
    /\ Len(peers) = 2
    /\ peers[1].address = "b2" /\ peers[2].address = "b1"
    /\ Mac1For(peers[2].pub_key, buf)
    /\ step.macs = 2
    /\ SentTo(step, "b1")

----------------------------------------------------------------------------
(* C4 - what a session entry holds *)

Range(seq) == {seq[i] : i \in 1..Len(seq)}

\* C4 (as claimed): for every entry id -> (c, b), c is the source of the first
\* handshake frame that carried id as sender and b is the address of a backend
\* whose MAC1 key matched that frame.
C4_EntryFromFirstHandshake ==
    \A id \in DOMAIN sessions :
        /\ id \in DOMAIN firstHs
        /\ sessions[id][1] = firstHs[id].src
        /\ sessions[id][2] \in Range(firstHs[id].backends)

\* C4 (amended): for every entry id -> (c, b), c is the source of the latest
\* handshake frame with sender id that wrote the entry (an initiation that
\* found no entry for id, or a response whose receiver had an entry); b is the
\* address of the first peer whose MAC1 key matched if that frame was an
\* initiation, and the first member of the receiver's entry if it was a
\* response.
C4_EntryFromLastInstall ==
    \A id \in DOMAIN sessions :
        /\ id \in DOMAIN origin
        /\ sessions[id][1] = origin[id].src
        /\ origin[id].kind = "initiation" =>
              /\ origin[id].backends # <<>>
              /\ sessions[id][2] = origin[id].backends[1]
        /\ origin[id].kind = "response" => sessions[id][2] = origin[id].c0
        /\ origin[id].kind \in {"initiation", "response"}

\* An entry installed by an initiation has been overwritten by a response, and
\* another entry still is the one its initiation installed.
C4_Witness ==
    \E id, other \in DOMAIN sessions :
        /\ id \in DOMAIN pinned
        /\ origin[id].kind = "response"
        /\ sessions[id] # pinned[id]
        /\ origin[other].kind = "initiation"
        /\ sessions[other] = <<origin[other].src, origin[other].backends[1]>>

----------------------------------------------------------------------------
(* C5 - a response installs the reverse route *)

\* C5: a 92-byte response with sender s and receiver r arriving from src
\* while r has the entry (c0, _) is forwarded to c0 and leaves the table as it
\* was except that s maps to (src, c0); a transport frame with receiver s
\* that the loop handles while that entry stands (origin[s] is the response
\* and c0 the address it went to) is forwarded to c0.
C5_ResponseReverseRoute ==
    [][RouteStep =>
        LET kind == KindOf(buf', step'.size)
            s == IdentityAt(buf', 4)
            r == IdentityAt(buf', 8)
        IN /\ (kind = "response" /\ r \in DOMAIN sessions) =>
                 /\ SentTo(step', sessions[r][1])
                 /\ DOMAIN sessions' = DOMAIN sessions \cup {s}
                 /\ sessions'[s] = <<step'.peer, sessions[r][1]>>
                 /\ \A x \in DOMAIN sessions \ {s} : sessions'[x] = sessions[x]
           /\ (/\ kind = "transport"
               /\ s \in DOMAIN origin
               /\ origin[s].kind = "response") =>
                 SentTo(step', origin[s].c0)]_vars

\* A transport frame has just been forwarded to client c1 over an entry that
\* a response from backend b2 wrote.
C5_Witness ==
    /\ step.ev = "packet"
    /\ KindOf(buf, step.size) = "transport"
    /\ IdentityAt(buf, 4) \in DOMAIN origin
    /\ origin[IdentityAt(buf, 4)] =
          [kind |-> "response", src |-> "b2", backends |-> <<>>, c0 |-> "c1"]
    /\ SentTo(step, "c1")

----------------------------------------------------------------------------
(* C6 - a reload leaves the sessions alone *)

\* The loop took the rx.recv() branch: an event left the channel.
ReloadStep == Len(rx') < Len(rx)

\* C6: consuming a reload event, Ok or Err, changes no session entry, sends
\* nothing, leaves the receive buffer and the count of handled datagrams as
\* they were and keeps the loop running.
C6_ReloadPreservesSessions ==
    [][ReloadStep =>
        /\ sessions' = sessions
        /\ Dropped(step')
        /\ buf' = buf
        /\ handled' = handled
        /\ pc' = "select"]_vars

\* A reload has just been consumed after backend b2 left config.toml, while a
\* session pinned to b2 exists.
C6_Witness ==
    /\ step.ev = "reload"
    /\ ~(\E i \in 1..Len(file) : AddrOf(file[i]) = "b2")
    /\ \E id \in DOMAIN sessions : sessions[id] = <<"c1", "b2">>

----------------------------------------------------------------------------
(* C7 - installing a new session *)

\* C7: an initiation from src with a sender s that has no entry, whose MAC1
\* matches at least one peer of the snapshot, is forwarded to the address b of
\* the first matching peer in snapshot order and adds exactly s -> (src, b).
C7_NewSessionFirstMatch ==
    [][RouteStep =>
        LET s == IdentityAt(buf', 4)
            m == MatchingBackends(peers, buf')
        IN (/\ KindOf(buf', step'.size) = "initiation"
            /\ s \notin DOMAIN sessions
            /\ m # <<>>) =>
              /\ SentTo(step', m[1])
              /\ DOMAIN sessions' = DOMAIN sessions \cup {s}
              /\ sessions'[s] = <<step'.peer, m[1]>>
              /\ \A x \in DOMAIN sessions : sessions'[x] = sessions[x]]_vars

\* A second session has just been installed by an initiation that two peers
\* with the same public key matched; the earlier one, b1, got it.
C7_Witness ==
    /\ step.ev = "packet"
    /\ KindOf(buf, step.size) = "initiation"
    /\ MatchingBackends(peers, buf) = <<"b1", "b3">>
    /\ step.macs = 1
    /\ Cardinality(DOMAIN sessions) = 2
    /\ sessions[IdentityAt(buf, 4)] = <<step.peer, "b1">>
    /\ SentTo(step, "b1")

----------------------------------------------------------------------------
(* C8 - unknown backend, unknown session *)

\* C8: an initiation of a sender without entry that no peer's MAC1 key
\* matches, and a response, cookie reply or transport frame whose receiver has
\* no entry, are dropped and leave the session table unchanged.
C8_UnknownIsDropped ==
    [][RouteStep =>
        LET kind == KindOf(buf', step'.size) IN
        (\/ /\ kind = "initiation"
            /\ IdentityAt(buf', 4) \notin DOMAIN sessions
            /\ MatchingBackends(peers, buf') = <<>>
         \/ /\ kind = "response"
            /\ IdentityAt(buf', 8) \notin DOMAIN sessions
         \/ /\ kind \in {"cookie", "transport"}
            /\ IdentityAt(buf', 4) \notin DOMAIN sessions) =>
           (Dropped(step') /\ sessions' = sessions)]_vars

\* With one session installed, a response naming an unknown receiver has just
\* been dropped and its sender has no entry.
C8_Witness ==
    /\ step.ev = "packet"
    /\ KindOf(buf, step.size) = "response"
    /\ sessions # NoSessions
    /\ IdentityAt(buf, 8) \notin DOMAIN sessions
    /\ IdentityAt(buf, 4) \notin DOMAIN sessions
    /\ Dropped(step)

----------------------------------------------------------------------------
(* C9 - the pre-filter *)

\* The pre-filter of the wire format: more than 4 bytes, opcode 1..4, the
\* three reserved bytes zero.
PassesFilter(data, n) ==
    n > 4 /\ data[1] \in {1, 2, 3, 4} /\ data[2] = 0 /\ data[3] = 0 /\ data[4] = 0

\* C9: is_wg_packet(n, buf) is true exactly when n > 4, buf[0] is in 1..4 and
\* the three reserved bytes are zero, whatever the buffer holds from byte n
\* on; a datagram that fails this test is dropped without any MAC1
\* computation and leaves the session table unchanged.
C9_PreFilter ==
    [][RouteStep =>
        /\ \A n \in TestSizes : is_wg_packet(n, buf') <=> PassesFilter(buf', n)
        /\ ~PassesFilter(buf', step'.size) =>
              (Dropped(step') /\ step'.macs = 0 /\ sessions' = sessions)]_vars

\* recv_from returned 4 bytes into a buffer that holds a transport header
\* whose receiver has a session; nothing was sent.
C9_Witness ==
    /\ step.ev = "packet"
    /\ step.size = 4
    /\ buf[1] = 4 /\ buf[2] = 0 /\ buf[3] = 0 /\ buf[4] = 0
    /\ IdentityAt(buf, 4) \in DOMAIN sessions
    /\ Dropped(step)

----------------------------------------------------------------------------
(* C10 - the classification table *)

TableKind(op, n) ==
    IF op = 1 /\ n = 148 THEN "HandshakeInitiation"
    ELSE IF op = 2 /\ n = 92 THEN "HandshakeResponse"
    ELSE IF op = 3 /\ n = 64 THEN "CookieReply"
    ELSE IF op = 4 /\ n >= 32 THEN "TransportData"
    ELSE "InvalidPacket"

\* C10: the classifier yields HandshakeInitiation iff opcode 1 and size 148,
\* HandshakeResponse iff opcode 2 and size 92, CookieReply iff opcode 3 and
\* size 64, TransportData iff opcode 4 and size >= 32, InvalidPacket
\* otherwise; a datagram it classifies InvalidPacket is dropped and leaves
\* the session table unchanged.
C10_ClassificationTable ==
    [][RouteStep =>
        /\ \A n \in TestSizes : try_from(buf', n).kind = TableKind(buf'[1], n)
        /\ TableKind(buf'[1], step'.size) = "InvalidPacket" =>
              (Dropped(step') /\ sessions' = sessions)]_vars

\* A datagram with opcode 1, zero reserved bytes and the length of a
\* response, whose sender has a session, passed the pre-filter and was
\* dropped.
C10_Witness ==
    /\ step.ev = "packet"
    /\ step.size = 92
    /\ buf[1] = 1 /\ buf[2] = 0 /\ buf[3] = 0 /\ buf[4] = 0
    /\ IdentityAt(buf, 4) \in DOMAIN sessions
    /\ Dropped(step)

----------------------------------------------------------------------------
(* C11 - transparency *)

\* The byte sequences the socket delivers.
ReceivedBytes == {in[1] : in \in Ingress}

\* C11: whenever handling a datagram sends something, the bytes sent are
\* buf[0..size] of the datagram just received, with the same length: they are
\* the datagram the socket delivered, and nothing the router did not receive.
C11_Transparency ==
    [][RouteStep =>
        \A k \in 1..Len(step'.sent) :
            /\ step'.sent[k].len = step'.size
            /\ SizeOf(step'.sent[k].data) = step'.size
            /\ step'.sent[k].data = SubSeq(buf', 1, CellsIn(step'.size))
            /\ step'.sent[k].data \in ReceivedBytes
            /\ buf' = Write(buf, step'.sent[k].data)]_vars

\* A 32-byte transport frame was forwarded while the receive buffer still
\* held, past byte 32, the MAC1 of an earlier initiation.
C11_Witness ==
    /\ step.ev = "packet"
    /\ KindOf(buf, step.size) = "transport"
    /\ Len(step.sent) = 1
    /\ step.sent[1].len = TransportMin
    /\ Len(step.sent[1].data) = CellsIn(TransportMin)
    /\ buf[Mac1Cell] # ZeroBuf[Mac1Cell]

----------------------------------------------------------------------------
(* C12 - what ends the loop *)

\* C12 (the steps): Router::run returns exactly in the step that takes the
\* Err(e) of recv_from; the step in which a send_to fails leaves the loop at
\* its select! with the guard dropped, and undoes nothing the handler did.
C12_RecvErrorAloneIsFatal ==
    [][/\ pc' = "returned" <=> (step'.ev = "recv_err" /\ step' # step)
       /\ (step'.ev = "packet_send_err" /\ step.ev = "sending") =>
             /\ pc' = "select"
             /\ mutex' = "free"
             /\ UNCHANGED <<sessions, peers, buf, handled, rx, config_rx, held>>]_vars

\* C12 (the states): when the last thing the loop did was a send_to that
\* failed, the loop is at its select!, not returned, and the entry the handler
\* wrote for the datagram whose send failed is in the table.
C12_SendErrorIsSwallowed ==
    step.ev = "packet_send_err" =>
        /\ pc = "select"
        /\ mutex = "free"
        /\ Len(step.sent) = 1
        /\ KindOf(buf, step.size) = "initiation" =>
              /\ IdentityAt(buf, 4) \in DOMAIN sessions
              /\ sessions[IdentityAt(buf, 4)][2] = step.sent[1].to
        /\ KindOf(buf, step.size) = "response" =>
              /\ IdentityAt(buf, 4) \in DOMAIN sessions
              /\ sessions[IdentityAt(buf, 4)] = <<step.peer, step.sent[1].to>>

\* C12: a receive error ends the loop and nothing else does; a send_to error
\* is swallowed, a further datagram can be received after it, and the entry
\* inserted for the datagram whose send failed stays installed.
C12_FailureSemantics ==
    /\ C12_RecvErrorAloneIsFatal
    /\ []C12_SendErrorIsSwallowed
    /\ [](step.ev = "packet_send_err" /\ handled < MaxPackets => ENABLED StepRecv)

\* The send_to of an initiation that installed a new session failed, the
\* entry is in the table, and the loop waits for the next datagram.
C12_Witness ==
    /\ step.ev = "packet_send_err"
    /\ KindOf(buf, step.size) = "initiation"
    /\ step.macs > 0
    /\ sessions[IdentityAt(buf, 4)] = <<step.peer, step.sent[1].to>>
    /\ pc = "select"
    /\ handled < MaxPackets

----------------------------------------------------------------------------
(* C13 - the watcher's channels *)

\* C13: the watcher events waiting for the router loop never number more
\* than the capacity of the bounded channel, because an event that finds the
\* channel full is dropped.
C13_PendingNeverExceedsCapacity ==
    Pending <= ChannelCap

----------------------------------------------------------------------------
(* C14 - the snapshot and the handler *)

\* C14: a reload event is consumed, and the snapshot assigned, only while the
\* loop is at its select!; from the receipt of a datagram to the return of
\* its handler the snapshot is one and the same; and a datagram is received
\* only when no handler is under way and the mutex is free.
C14_SnapshotAtomicity ==
    [][/\ ReloadStep => (pc = "select" /\ pc' = "select")
       /\ pc # "select" => peers' = peers
       /\ handled' = handled + 1 => (pc = "select" /\ mutex = "free")
       /\ pc \in {"handle", "lock", "locked", "send"} =>
             (handled' = handled /\ buf' = buf)]_vars

\* A reload event waits in the channel while the handler of an initiation
\* holds the mutex and is about to search the snapshot.
C14_Witness ==
    /\ pc = "locked"
    /\ mutex = "held"
    /\ KindOf(buf, step.size) = "initiation"
    /\ rx # <<>>
    /\ Head(rx) = "Ok"

----------------------------------------------------------------------------
(* C15 - no eviction *)

\* C15: no step removes a key of the session table, and the value of a key
\* changes only in the step that handles a handshake frame whose sender is
\* that key and that is forwarded (the insert of the initiation or response
\* arm); every other entry is left as it was.
C15_NoEviction ==
    [][/\ DOMAIN sessions \subseteq DOMAIN sessions'
       /\ \A id \in DOMAIN sessions' :
             (id \notin DOMAIN sessions \/ sessions'[id] # sessions[id]) =>
                 /\ RouteStep
                 /\ KindOf(buf', step'.size) \in {"initiation", "response"}
                 /\ IdentityAt(buf', 4) = id
                 /\ ~Dropped(step')]_vars

\* A response overwrote the entry of its sender while the entry of another
\* identity stayed in the table.
C15_Witness ==
    /\ step.ev = "packet"
    /\ KindOf(buf, step.size) = "response"
    /\ IdentityAt(buf, 4) \in DOMAIN pinned
    /\ sessions[IdentityAt(buf, 4)] # pinned[IdentityAt(buf, 4)]
    /\ origin[IdentityAt(buf, 4)].kind = "response"
    /\ Cardinality(DOMAIN sessions) = 2

----------------------------------------------------------------------------
(* C16 - retransmitted initiation *)

\* The addresses of the peers of the snapshot ps.
PeerAddresses(ps) == {ps[i].address : i \in 1..Len(ps)}

\* C16: an initiation whose sender already has a session entry is forwarded
\* to the second member of that entry, which is the address of a backend
\* peer and never a client endpoint, with no MAC1 computation and no change
\* of the session table, whichever frame installed the entry.
C16_RetransmitGoesToBackend ==
    [][(/\ RouteStep
        /\ KindOf(buf', step'.size) = "initiation"
        /\ IdentityAt(buf', 4) \in DOMAIN sessions) =>
           /\ SentTo(step', sessions[IdentityAt(buf', 4)][2])
           /\ step'.sent[1].to \in PeerAddresses(peers)
           /\ step'.sent[1].to \notin Clients
           /\ step'.macs = 0
           /\ sessions' = sessions]_vars

----------------------------------------------------------------------------
(* C17 - orientation of the data plane *)

\* C17: a cookie reply whose receiver has the entry (x, y) is forwarded to x
\* and transport data whose receiver has the entry (x, y) is forwarded to y;
\* neither changes the session table; so a cookie reply for an identity whose
\* entry an initiation installed reaches the source of that initiation.
C17_DataPlaneOrientation ==
    [][RouteStep =>
        LET kind == KindOf(buf', step'.size)
            r == IdentityAt(buf', 4)
        IN /\ kind \in {"cookie", "transport"} => sessions' = sessions
           /\ (kind = "cookie" /\ r \in DOMAIN sessions) =>
                 /\ SentTo(step', sessions[r][1])
                 /\ origin[r].kind = "initiation" => SentTo(step', origin[r].src)
           /\ (kind = "transport" /\ r \in DOMAIN sessions) =>
                 SentTo(step', sessions[r][2])]_vars

\* A cookie reply from backend b2 for an identity installed by an initiation
\* of client c1 went to c1.
C17_Witness ==
    /\ step.ev = "packet"
    /\ KindOf(buf, step.size) = "cookie"
    /\ step.peer = "b2"
    /\ IdentityAt(buf, 4) \in DOMAIN sessions
    /\ origin[IdentityAt(buf, 4)].kind = "initiation"
    /\ sessions[IdentityAt(buf, 4)] = <<"c1", "b2">>
    /\ SentTo(step, "c1")

----------------------------------------------------------------------------
(* C18 - route integrity against third parties *)

\* C18: while the entry of s is the pair (c, b) an initiation pinned, a
\* datagram from an address other than c and b leaves that entry as it is;
\* and a response is forwarded only when it comes from the second member of
\* the entry of its receiver id.
C18_ThirdPartyCannotReroute ==
    [][RouteStep =>
        /\ \A s \in DOMAIN pinned :
              (/\ sessions[s] = pinned[s]
               /\ step'.peer \notin {pinned[s][1], pinned[s][2]})
                 => sessions'[s] = sessions[s]
        /\ (/\ KindOf(buf', step'.size) = "response"
            /\ ~Dropped(step'))
              => step'.peer = sessions[IdentityAt(buf', 8)][2]]_vars

----------------------------------------------------------------------------
(* C19 - one egress per ingress *)

\* The frame in data finds a route: an initiation whose sender has an entry
\* or whose MAC1 some peer of ps matches; any other frame whose receiver has
\* an entry.
RouteFound(data, size, ps, sess) ==
    LET kind == KindOf(data, size) IN
    \/ kind = "initiation" /\ (\/ IdentityAt(data, 4) \in DOMAIN sess
                               \/ MatchingBackends(ps, data) # <<>>)
    \/ kind = "response" /\ IdentityAt(data, 8) \in DOMAIN sess
    \/ kind \in {"cookie", "transport"} /\ IdentityAt(data, 4) \in DOMAIN sess

\* The identities whose entry differs between the tables before and after.
Written(before, after) ==
    {id \in DOMAIN after : id \notin DOMAIN before \/ after[id] # before[id]}

\* C19: handling one datagram makes exactly one send_to when the frame finds
\* a route and none otherwise, and writes at most one entry of the session
\* table; every other step calls no send_to (the completion of the
\* handler's send_to calls none either) and writes no entry.
C19_OneEgressPerIngress ==
    [][/\ RouteStep =>
            /\ Len(step'.sent) = (IF RouteFound(buf', step'.size, peers, sessions)
                                  THEN 1 ELSE 0)
            /\ Cardinality(Written(sessions, sessions')) <= 1
       /\ ~RouteStep =>
            /\ sessions' = sessions
            /\ step'.sent \in {step.sent, <<>>}]_vars

\* A response was forwarded once and installed one new entry beside the one
\* of its receiver.
C19_Witness ==
    /\ step.ev = "packet"
    /\ KindOf(buf, step.size) = "response"
    /\ Len(step.sent) = 1
    /\ IdentityAt(buf, 4) # IdentityAt(buf, 8)
    /\ DOMAIN sessions = {IdentityAt(buf, 4), IdentityAt(buf, 8)}
    /\ origin[IdentityAt(buf, 4)].kind = "response"

----------------------------------------------------------------------------
(* C20 - progress and the mutex *)

\* The loop is inside handle_packet.
InHandler == pc \in {"handle", "lock", "locked", "send"}

\* C20 (the mutex): the mutex is free whenever the loop is at its select! or
\* has returned, and is held exactly from the lock to the end of the arm,
\* the send_to included; it is acquired only by a handler that has not
\* acquired it yet.
C20_LockDiscipline ==
    /\ pc \in {"select", "returned", "handle", "lock"} => mutex = "free"
    /\ pc \in {"locked", "send"} => mutex = "held"

\* C20 (one acquisition): the mutex is acquired only in the step from "lock"
\* to "locked", and an arm never comes back to "lock".
C20_AcquiredOnce ==
    [][/\ (mutex = "free" /\ mutex' = "held") => (pc = "lock" /\ pc' = "locked")
       /\ (pc' = "lock" /\ pc # "lock") => pc = "handle"
       /\ (pc' = "handle" /\ pc # "handle") => (pc = "select" /\ PacketStep)]_vars

\* C20: the mutex discipline above; and, when every send_to completes,
\* every handler returns to the select!; unless the loop has returned, the
\* loop's channel does not stay non-empty without the loop consuming events
\* from it again and again (it is a FIFO, so every event in it is consumed),
\* every event in the watcher's channel is forwarded, and the loop goes on
\* receiving the datagrams the socket has for it.
C20_ProgressAndLockDiscipline ==
    /\ []C20_LockDiscipline
    /\ C20_AcquiredOnce
    /\ WF_vars(StepSendOk \/ StepSendErr) =>
          /\ InHandler ~> (pc = "select")
          /\ ([]<>(rx = <<>> \/ pc = "returned") \/ []<><<ReloadStep>>_vars)
          /\ (config_rx # <<>>) ~> (rx # <<>> \/ pc = "returned")
          /\ <>(handled = MaxPackets \/ pc = "returned")
====
